---- MODULE Spec2Model ----
(***************************************************************************)
(* VectorPainter: the two-stage stroke optimisation pipeline               *)
(* (vectorpainter/pipelines/VectorPainter_pipeline.py) and the DDIM        *)
(* inversion helpers it calls (vectorpainter/painter/inversion.py).        *)
(*                                                                         *)
(* Tensors are abstracted: a latent is a record naming where it came from, *)
(* a float is a record [nan, v] over the integers, and the values of the   *)
(* opaque metrics (mse, ssim, sinkhorn, ...) are inputs of each iteration. *)
(* A Python exception ends the run: pc = "aborted" and error names it.     *)
(***************************************************************************)
EXTENDS Integers, Sequences, FiniteSets, TLC

(* ------------------------------ bounds -------------------------------- *)

\* largest iteration budget (imit_stage.num_iter, synth_stage.num_iter)
MaxIter == 2

\* largest args.save_step and args.framefreq
MaxFreq == 2

\* largest x.num_inference_steps of a pipeline run
MaxInferenceSteps == 7

\* largest synth_stage.num_iter of the runs that record video frames
MaxSyntIter == 3

(* --------------------------- program constants ------------------------ *)

\* self.step as ModelState.__init__ leaves it
InitialStep == 0

\* make_inversion_callback(zts, offset=5)
Offset == 5

\* prompts = [style_prompt, prompt, prompt]: the batch of the generation
NumPrompts == 3

\* scheduler.config.num_train_timesteps: the length of alphas_cumprod
NumTrainTimesteps == 1000

\* the literal 999 of _next_step
MaxTimestep == 999

\* self.accelerator.is_main_process of the single process of a run
IsMainProcess == TRUE

(* ------------------------------- floats ------------------------------- *)

\* a finite float
F(v) == [nan |-> FALSE, v |-> v]

\* float('nan')
NaN == [nan |-> TRUE, v |-> 0]

\* torch.tensor(0.)
Zero == F(0)

FAdd(a, b) == IF a.nan \/ b.nan THEN NaN ELSE F(a.v + b.v)

FSub(a, b) == IF a.nan \/ b.nan THEN NaN ELSE F(a.v - b.v)

\* tensor * python number
FScale(a, w) == IF a.nan THEN NaN ELSE F(a.v * w)

(* ------------------------------ artifacts ----------------------------- *)

\* one file written under result_path: <dir>/<name><n>
Write(dir, name, n) == [op |-> "write", dir |-> dir, name |-> name, n |-> n]

\* shutil.copy(style_fpath, dir): the file lands at <dir>/<name>, name being
\* the base name of style_fpath
Copy(dir, name) == [op |-> "copy", dir |-> dir, name |-> name, n |-> 0]

\* one call into a collaborator (inversion, generation, video, close)
Call(name) == [op |-> "call", dir |-> "", name |-> name, n |-> 0]

(* ------------------------------- state -------------------------------- *)

VARIABLES
  cfg,        \* the configuration of the run (args, x_cfg, imit_cfg, synt_cfg)
  pc,         \* the position of the run in painterly_rendering
  step,       \* self.step
  frame_idx,  \* self.frame_idx (-1: the attribute does not exist)
  log,        \* the artifact writes and collaborator calls so far, in order
  params,     \* the renderer's stroke parameters
  ref,        \* init_relative_pos / init_curves of stage 2
  metrics,    \* the metric values of the current iteration (locals)
  loss,       \* the loss breakdown of the current iteration (locals)
  iters,      \* completed iterations of each stage
  error,      \* the exception that ended the run
  all_latent, \* _ddim_loop: all_latent
  latent,     \* _ddim_loop: latent
  inv_i,      \* _ddim_loop: i
  timestep,   \* _ddim_loop: t, the timestep handed to _next_step
  lookups,    \* _next_step: the alphas_cumprod lookups of the last call
  zts,        \* the trajectory ddim_inversion returned
  latents,    \* the batch of latents of the generation
  den_i,      \* the denoising step of the generation
  target      \* the latent the target raster was decoded from

vars == <<cfg, pc, step, frame_idx, log, params, ref, metrics, loss, iters,
          error, all_latent, latent, inv_i, timestep, lookups, zts, latents,
          den_i, target>>

inversionVars ==
  <<all_latent, latent, inv_i, timestep, lookups, zts, latents, den_i, target>>

optimVars == <<params, ref, metrics, loss, iters>>

NoError == [type |-> "none", at |-> "none"]

NoLoss == [l_recon |-> Zero, l_struct |-> Zero, l_rel_pos |-> Zero, total |-> Zero]

NoMetrics == [mse |-> Zero, sim |-> Zero, dist |-> Zero]

NoLatent == [src |-> "none", n |-> 0, slot |-> 0, dtype |-> "none"]

NoLookups == [idx |-> {}, boundary |-> FALSE]

\* init_relative_pos / init_curves before they are assigned
NoRef == [ver |-> -1, nan |-> FALSE, live |-> FALSE]

(* --------------------------- configuration ---------------------------- *)

\* values a metric can take on some raster: zero, positive, NaN
MseValues == {F(0), F(3), NaN}

\* values of SSIM / MS-SSIM
SimValues == {F(-1), F(0), F(1)}

\* values of the positional / shape distance
DistValues == {F(0), F(2)}

\* a valid loss configuration with every term enabled
BaseLossCfg ==
  [l2_loss |-> 1, struct_loss_weight |-> 1, struct_loss |-> "ssim",
   pos_loss_weight |-> 1, pos_type |-> "bez"]

LossCfgs ==
  [l2_loss : {0, 2}, struct_loss_weight : {-1, 0, 2},
   struct_loss : {"ssim", "msssim", "none"},
   pos_loss_weight : {0, 2}, pos_type : {"pos", "bez", "sinkhorn", "l1"}]

\* a base name of the style file that is none of the names the pipeline
\* writes under style_image
PlainStyleName == "style.png"

\* base names the style file (cfg.style, any image file) can have: a name of
\* its own, or one the pipeline writes under style_image itself
StyleNames == {PlainStyleName, "style_image_input.png", "stroke_init_style.png"}

RunCfg(budgets, l) ==
  [imit_num_iter |-> budgets.imit_num_iter,
   synt_num_iter |-> budgets.synt_num_iter,
   save_step |-> budgets.save_step,
   framefreq |-> budgets.framefreq,
   mv |-> budgets.mv,
   num_inference_steps |-> budgets.num_inference_steps,
   l2_loss |-> l.l2_loss,
   struct_loss_weight |-> l.struct_loss_weight,
   struct_loss |-> l.struct_loss,
   pos_loss_weight |-> l.pos_loss_weight,
   pos_type |-> l.pos_type,
   style_name |-> PlainStyleName]

\* the same run with the style file at another path
WithStyle(c, name) == [c EXCEPT !.style_name = name]

\* VectorPainterPipeline.__init__: the state of a pipeline before
\* painterly_rendering is called
Construct(c) ==
  /\ cfg = c
  /\ pc = "init"
  /\ step = InitialStep
  /\ frame_idx = (IF c.mv THEN 0 ELSE -1)
  /\ log = << >>
  /\ params = [ver |-> 0, nan |-> FALSE]
  /\ ref = NoRef
  /\ metrics = NoMetrics
  /\ loss = NoLoss
  /\ iters = [s1 |-> 0, s2 |-> 0]
  /\ error = NoError
  /\ all_latent = << >>
  /\ latent = NoLatent
  /\ inv_i = 0
  /\ timestep = 0
  /\ lookups = NoLookups
  /\ zts = << >>
  /\ latents = << >>
  /\ den_i = 0
  /\ target = NoLatent

\* args.framefreq is read only when args.mv is set
Init ==
  \E b \in [imit_num_iter : 0..MaxIter, synt_num_iter : 0..MaxIter,
            save_step : 1..MaxFreq, framefreq : 1..MaxFreq, mv : BOOLEAN,
            num_inference_steps : 1..MaxInferenceSteps] :
    /\ b.mv \/ b.framefreq = 1
    /\ Construct(RunCfg(b, BaseLossCfg))

(* ------------------------------ helpers ------------------------------- *)

\* an exception leaves painterly_rendering: nothing catches it
Raise(type, at) ==
  /\ pc' = "aborted"
  /\ error' = [type |-> type, at |-> at]

\* the first k of the writes evs succeed; the next one, if any, raises
WritesDone(evs, k) == k = Len(evs)

\* optimizer.zero_grad_(); loss.backward(); optimizer.step_()
OptimizerStep(p, l) == [ver |-> p.ver + 1, nan |-> p.nan \/ l.nan]

\* the loop guard off by one: while self.step <= total_iter
LoopContinuesOffByOne(s, total) == s <= total

\* while self.step < total_iter
LoopContinues(s, total) == s < total

\* self.step += 1
StepIncrement(s) == s + 1

\* self.step % self.args.save_step == 0 and self.accelerator.is_main_process
SnapshotDue(s) == s % cfg.save_step = 0 /\ IsMainProcess

(* ------------------------------ stage 1 ------------------------------- *)

\* painterly_rendering: load the style image, build the renderer, save the
\* initial snapshot
LoadStyle ==
  /\ pc = "init"
  /\ \E k \in 0..4 :
       LET evs == <<Copy("style_image", cfg.style_name),
                    Write("style_image", "style_image_input.png", 0),
                    Write("style_image", "stroke_init_style.png", 0),
                    Write("style_image", "stroke_init_style.svg", 0)>>
       IN /\ log' = log \o SubSeq(evs, 1, k)
          /\ IF WritesDone(evs, k)
               THEN pc' = "s1_loop" /\ error' = error
               ELSE Raise("IOError", "LoadStyle")
  /\ UNCHANGED <<cfg, step, frame_idx, optimVars, inversionVars>>

\* brushstroke_imitation: one iteration of the while loop
Stage1Iter ==
  /\ pc = "s1_loop"
  /\ LoopContinues(step, cfg.imit_num_iter)
  /\ \E mse \in MseValues, k \in 0..2 :
       LET evs == IF SnapshotDue(step)
                    THEN <<Write("imit_png_logs", "iter", step),
                           Write("imit_svg_logs", "svg_iter", step)>>
                    ELSE << >>
       IN /\ k <= Len(evs)
          /\ metrics' = [NoMetrics EXCEPT !.mse = mse]
          /\ loss' = [NoLoss EXCEPT !.total = mse]
          /\ params' = OptimizerStep(params, mse)
          /\ log' = log \o SubSeq(evs, 1, k)
          /\ IF WritesDone(evs, k)
               THEN /\ step' = StepIncrement(step)
                    /\ iters' = [iters EXCEPT !.s1 = @ + 1]
                    /\ pc' = pc
                    /\ error' = error
               ELSE /\ Raise("IOError", "Stage1Iter")
                    /\ UNCHANGED <<step, iters>>
  /\ UNCHANGED <<cfg, frame_idx, ref, inversionVars>>

\* stage 1 hands over to the stage-2 loop without inversion and synthesis
Stage1DoneSkipsInversion ==
  /\ pc = "s1_loop"
  /\ ~LoopContinues(step, cfg.imit_num_iter)
  /\ \E k \in 0..2 :
       LET evs == <<Write("", "style_result.svg", 0),
                    Write("", "style_result.png", 0)>>
       IN /\ log' = log \o SubSeq(evs, 1, k)
          /\ IF WritesDone(evs, k)
               THEN /\ pc' = "s2_setup"
                    /\ error' = error
                    /\ metrics' = NoMetrics
                    /\ loss' = NoLoss
               ELSE /\ Raise("IOError", "Stage1Done")
                    /\ UNCHANGED <<metrics, loss>>
  /\ UNCHANGED <<cfg, step, frame_idx, params, ref, iters, inversionVars>>

\* brushstroke_imitation: the loop is over; save the style result and
\* return (the locals loss and raster_sketch are gone)
Stage1Done ==
  /\ pc = "s1_loop"
  /\ ~LoopContinues(step, cfg.imit_num_iter)
  /\ \E k \in 0..2 :
       LET evs == <<Write("", "style_result.svg", 0),
                    Write("", "style_result.png", 0)>>
       IN /\ log' = log \o SubSeq(evs, 1, k)
          /\ IF WritesDone(evs, k)
               THEN /\ pc' = "style_inversion"
                    /\ error' = error
                    /\ metrics' = NoMetrics
                    /\ loss' = NoLoss
               ELSE /\ Raise("IOError", "Stage1Done")
                    /\ UNCHANGED <<metrics, loss>>
  /\ UNCHANGED <<cfg, step, frame_idx, params, ref, iters, inversionVars>>

(* --------------------------- DDIM inversion --------------------------- *)

\* python's min and max
Min(a, b) == IF a < b THEN a ELSE b

Max(a, b) == IF a > b THEN a ELSE b

\* seq[i] of a python sequence or of a tensor's first dimension, i >= 0
At(seq, i) == seq[i + 1]

\* whether seq[i] exists (i >= 0); python raises IndexError when it does not
InBounds(seq, i) == i < Len(seq)

\* the flip left out
FlipOmitted(seq) == seq

\* tensor.flip(0)
Flip(seq) == [j \in 1..Len(seq) |-> seq[Len(seq) + 1 - j]]

\* tensor.to(device, dtype)
To(x, dtype) == [x EXCEPT !.dtype = dtype]

\* _encode_image: the latent of the clean image
EncodeImage == [src |-> "inv", n |-> 0, slot |-> 0, dtype |-> "float16"]

\* scheduler.config.steps_offset of the DDIM scheduler
StepsOffset == 1

\* model.scheduler.set_timesteps(num_inv_steps) followed by
\* timesteps[len(timesteps) - i - 1]: the timestep of inversion step i
\* (leading spacing: i * step_ratio + steps_offset)
InversionTimestep(i, n) == i * (NumTrainTimesteps \div n) + StepsOffset

\* _next_step: the timestep the sample is stepped from,
\* min(timestep - num_train_timesteps // num_inference_steps, 999)
SteppedTimestep(t, n) == Min(t - NumTrainTimesteps \div n, MaxTimestep)

\* the test for the boundary left out
ReadsTableAlways(st) == TRUE

\* _next_step: whether alphas_cumprod is read at the stepped timestep
\* (else final_alpha_cumprod is used)
ReadsTable(st) == st >= 0

\* _next_step: the indices at which alphas_cumprod is read, and whether
\* final_alpha_cumprod is used
NextStepLookups(t, n) ==
  LET st == SteppedTimestep(t, n)
  IN [idx |-> (IF ReadsTable(st) THEN {st} ELSE {}) \cup {t},
      boundary |-> ~ReadsTable(st)]

\* _next_step: the next, noisier sample
NextStep(sample) == [sample EXCEPT !.n = @ + 1]

\* style_inversion up to the call of ddim_inversion, and ddim_inversion up
\* to the loop of _ddim_loop
DdimInversionBegin ==
  /\ pc = "style_inversion"
  /\ pc' = "ddim_loop"
  /\ log' = Append(log, Call("ddim_inversion"))
  /\ all_latent' = <<EncodeImage>>
  /\ latent' = EncodeImage
  /\ inv_i' = 0
  /\ UNCHANGED <<cfg, step, frame_idx, optimVars, error, timestep, lookups,
                 zts, latents, den_i, target>>

\* _ddim_loop: one inversion step
DdimLoopStep ==
  /\ pc = "ddim_loop"
  /\ inv_i < cfg.num_inference_steps
  /\ LET t == InversionTimestep(inv_i, cfg.num_inference_steps)
         nxt == NextStep(latent)
     IN /\ timestep' = t
        /\ lookups' = NextStepLookups(t, cfg.num_inference_steps)
        /\ latent' = nxt
        /\ all_latent' = Append(all_latent, nxt)
  /\ inv_i' = inv_i + 1
  /\ UNCHANGED <<cfg, pc, step, frame_idx, log, optimVars, error, zts,
                 latents, den_i, target>>

\* _ddim_loop: the loop is over; the trajectory is flipped and returned
DdimLoopEnd ==
  /\ pc = "ddim_loop"
  /\ inv_i >= cfg.num_inference_steps
  /\ zts' = Flip(all_latent)
  /\ pc' = "make_callback"
  /\ UNCHANGED <<cfg, step, frame_idx, log, optimVars, error, all_latent,
                 latent, inv_i, timestep, lookups, latents, den_i, target>>

(* ----------------------------- generation ----------------------------- *)

\* the trajectory index the step-end callback injects at denoising step i
CallbackIndex(i) == Max(Offset + 1, i + 1)

\* the latents of the batch as one denoising step leaves them
Denoised(i) ==
  [s \in 1..NumPrompts |->
     [src |-> "unet", n |-> i, slot |-> s - 1, dtype |-> "float16"]]

\* the assignment without the slot: latents[:] = zts[...]
CallbackLatentsAllSlots(l, i) ==
  [s \in DOMAIN l |-> To(At(zts, CallbackIndex(i)), l[s].dtype)]

\* callback_on_step_end: latents[0] = zts[max(offset + 1, i + 1)].to(...)
CallbackLatents(l, i) ==
  [l EXCEPT ![1] = To(At(zts, CallbackIndex(i)), l[1].dtype)]

\* style_inversion: make_inversion_callback, decode_and_save_latent, the
\* initial latents of the batch
MakeInversionCallback ==
  /\ pc = "make_callback"
  /\ IF ~InBounds(zts, Offset)
       THEN /\ Raise("IndexError", "MakeInversionCallback")
            /\ UNCHANGED <<log, latents>>
       ELSE \E k \in 0..1 :
              LET zT == At(zts, Offset)
                  evs == <<Write("sd_sample", "decode_zT.png", 0)>>
              IN /\ log' = log \o SubSeq(evs, 1, k)
                 /\ IF WritesDone(evs, k)
                      THEN /\ latents' =
                                <<zT, zT,
                                  [src |-> "randn", n |-> 0, slot |-> 2,
                                   dtype |-> "float16"]>>
                           /\ pc' = "generate_call"
                           /\ error' = error
                      ELSE /\ Raise("IOError", "MakeInversionCallback")
                           /\ UNCHANGED latents
  /\ UNCHANGED <<cfg, step, frame_idx, optimVars, all_latent, latent, inv_i,
                 timestep, lookups, zts, den_i, target>>

\* style_inversion: the call of the generation pipeline
GenerateBegin ==
  /\ pc = "generate_call"
  /\ pc' = "denoise"
  /\ log' = Append(log, Call("generate"))
  /\ den_i' = 0
  /\ UNCHANGED <<cfg, step, frame_idx, optimVars, error, all_latent, latent,
                 inv_i, timestep, lookups, zts, latents, target>>

\* the generation pipeline: one denoising step of the whole batch
DenoiseStep ==
  /\ pc = "denoise"
  /\ den_i < cfg.num_inference_steps
  /\ latents' = Denoised(den_i)
  /\ pc' = "callback"
  /\ UNCHANGED <<cfg, step, frame_idx, log, optimVars, error, all_latent,
                 latent, inv_i, timestep, lookups, zts, den_i, target>>

\* the generation pipeline calls callback_on_step_end(pipeline, i, t, kwargs)
CallbackOnStepEnd ==
  /\ pc = "callback"
  /\ IF InBounds(zts, CallbackIndex(den_i))
       THEN /\ latents' = CallbackLatents(latents, den_i)
            /\ den_i' = den_i + 1
            /\ pc' = "denoise"
            /\ error' = error
       ELSE /\ Raise("IndexError", "CallbackOnStepEnd")
            /\ UNCHANGED <<latents, den_i>>
  /\ UNCHANGED <<cfg, step, frame_idx, log, optimVars, all_latent, latent,
                 inv_i, timestep, lookups, zts, target>>

\* style_inversion: the generation returned; save the samples and the
\* target (the last entry of the batch)
GenerateEnd ==
  /\ pc = "denoise"
  /\ den_i >= cfg.num_inference_steps
  /\ \E k \in 0..2 :
       LET evs == <<Write("sd_sample", "samples.png", 0),
                    Write("sd_sample", "target.png", 0)>>
       IN /\ log' = log \o SubSeq(evs, 1, k)
          /\ IF WritesDone(evs, k)
               THEN /\ target' = At(latents, NumPrompts - 1)
                    /\ pc' = "s2_setup"
                    /\ error' = error
               ELSE /\ Raise("IOError", "GenerateEnd")
                    /\ UNCHANGED target
  /\ UNCHANGED <<cfg, step, frame_idx, optimVars, all_latent, latent, inv_i,
                 timestep, lookups, zts, latents, den_i>>

(* ------------------------------ stage 2 ------------------------------- *)

\* the metric values one iteration of stage 2 can see
MetricInputs == [mse : MseValues, sim : SimValues, dist : DistValues]

\* the reset left out: the counter keeps its stage-1 value
StaleStep == step

\* self.step = 0
ResetStep == 0

\* l_struct_fn: SSIM(), MSSSIM(), or the zero loss lambda
StructFn(sel, m) == IF sel \in {"ssim", "msssim"} THEN m.sim ELSE Zero

\* the recon term computed whatever the weight
LReconNoGuard(c, m) == FScale(m.mse, c.l2_loss)

\* recon loss
LRecon(c, m) == IF c.l2_loss > 0 THEN FScale(m.mse, c.l2_loss) ELSE Zero

\* struct loss
LStruct(c, m) ==
  IF c.struct_loss_weight > 0
    THEN IF c.struct_loss \in {"ssim", "msssim"}
           THEN FSub(F(1), StructFn(c.struct_loss, m))
           ELSE StructFn(c.struct_loss, m)
    ELSE Zero

\* the distance of the current strokes p to the captured reference r
\* (F.mse_loss of the relative positions, bezier_curve_loss): zero when the
\* strokes are the reference
RefDistance(m, p, r) ==
  IF p.nan \/ r.nan THEN NaN ELSE IF p.ver = r.ver THEN Zero ELSE m.dist

\* stroke loss
LRelPos(c, m, p, r) ==
  IF c.pos_loss_weight > 0
    THEN CASE c.pos_type = "pos" -> FScale(RefDistance(m, p, r), c.pos_loss_weight)
           [] c.pos_type = "bez" -> FScale(RefDistance(m, p, r), c.pos_loss_weight)
           [] c.pos_type = "sinkhorn" -> FScale(m.dist, c.pos_loss_weight)
           [] OTHER -> Zero
    ELSE Zero

\* total loss: loss = l_recon + l_struct + l_rel_pos
ComposeLoss(c, m, p, r) ==
  LET a == LRecon(c, m)
      b == LStruct(c, m)
      d == LRelPos(c, m, p, r)
  IN [l_recon |-> a, l_struct |-> b, l_rel_pos |-> d,
      total |-> FAdd(FAdd(a, b), d)]

\* a frame at every step
FrameDueEveryStep(s, total) == cfg.mv

\* self.make_video and (self.step % self.args.framefreq == 0
\*                      or self.step == total_iter - 1)
FrameDue(s, total) == cfg.mv /\ (s % cfg.framefreq = 0 \/ s = total - 1)

\* the reference kept as the live parameter tensors themselves
CaptureReferenceByAlias(p) == [ver |-> p.ver, nan |-> p.nan, live |-> TRUE]

\* get_relative_pos(renderer.get_point_parameters()).detach() and
\* copy.deepcopy(renderer.get_point_parameters()): values of their own
CaptureReference(p) == [ver |-> p.ver, nan |-> p.nan, live |-> FALSE]

\* optimizer.step_() updates the parameter tensors in place: a reference
\* that is those tensors changes with them, a copy does not
ReferenceAfterStep(r, p) ==
  IF r.live THEN [ver |-> p.ver, nan |-> p.nan, live |-> TRUE] ELSE r

\* synthesis_with_style_supervision after style_inversion returned, up to
\* the loop: the reference strokes, the optimizer, the step counter
Stage2Setup ==
  /\ pc = "s2_setup"
  /\ ref' = CaptureReference(params)
  /\ step' = ResetStep
  /\ pc' = "s2_loop"
  /\ UNCHANGED <<cfg, frame_idx, log, params, metrics, loss, iters, error,
                 inversionVars>>

\* synthesis_with_style_supervision: one iteration of the while loop
Stage2Iter ==
  /\ pc = "s2_loop"
  /\ LoopContinues(step, cfg.synt_num_iter)
  /\ \E m \in MetricInputs, fk \in 0..1, sk \in 0..2 :
       LET frame == IF FrameDue(step, cfg.synt_num_iter)
                      THEN <<Write("frame_logs", "iter", frame_idx)>>
                      ELSE << >>
           snap == IF SnapshotDue(step)
                     THEN <<Write("png_logs", "iter", step),
                            Write("svg_logs", "svg_iter", step)>>
                     ELSE << >>
           l == ComposeLoss(cfg, m, params, ref)
       IN /\ fk <= Len(frame)
          /\ sk <= Len(snap)
          /\ IF ~WritesDone(frame, fk)
               THEN /\ Raise("IOError", "Stage2Iter")
                    /\ UNCHANGED <<log, frame_idx, metrics, loss, params,
                                   ref, step, iters>>
               ELSE /\ frame_idx' = frame_idx + Len(frame)
                    /\ metrics' = m
                    /\ loss' = l
                    /\ params' = OptimizerStep(params, l.total)
                    /\ ref' = ReferenceAfterStep(ref, params')
                    /\ log' = log \o frame \o SubSeq(snap, 1, sk)
                    /\ IF WritesDone(snap, sk)
                         THEN /\ step' = StepIncrement(step)
                              /\ iters' = [iters EXCEPT !.s2 = @ + 1]
                              /\ pc' = pc
                              /\ error' = error
                         ELSE /\ Raise("IOError", "Stage2Iter")
                              /\ UNCHANGED <<step, iters>>
  /\ UNCHANGED <<cfg, inversionVars>>

\* synthesis_with_style_supervision: the loop is over; save the final
\* result and return (the locals of the loop are gone)
Stage2Done ==
  /\ pc = "s2_loop"
  /\ ~LoopContinues(step, cfg.synt_num_iter)
  /\ \E k \in 0..2 :
       LET evs == <<Write("", "final_svg.svg", 0),
                    Write("", "final_render.png", 0)>>
       IN /\ log' = log \o SubSeq(evs, 1, k)
          /\ IF WritesDone(evs, k)
               THEN /\ pc' = "finalize"
                    /\ error' = error
                    /\ metrics' = NoMetrics
                    /\ loss' = NoLoss
               ELSE /\ Raise("IOError", "Stage2Done")
                    /\ UNCHANGED <<metrics, loss>>
  /\ UNCHANGED <<cfg, step, frame_idx, params, ref, iters, inversionVars>>

\* painterly_rendering: the video, then self.close(...)
Finalize ==
  /\ pc = "finalize"
  /\ \E k \in 0..1 :
       LET evs == IF cfg.mv THEN <<Write("", "rendering.mp4", 0)>> ELSE << >>
       IN /\ k <= Len(evs)
          /\ IF WritesDone(evs, k)
               THEN /\ log' = (log \o evs) \o <<Call("close")>>
                    /\ pc' = "done"
                    /\ error' = error
               ELSE /\ log' = log
                    /\ Raise("IOError", "Finalize")
  /\ UNCHANGED <<cfg, step, frame_idx, optimVars, inversionVars>>

Next ==
  \/ LoadStyle
  \/ Stage1Iter
  \/ Stage1Done
  \/ DdimInversionBegin
  \/ DdimLoopStep
  \/ DdimLoopEnd
  \/ MakeInversionCallback
  \/ GenerateBegin
  \/ DenoiseStep
  \/ CallbackOnStepEnd
  \/ GenerateEnd
  \/ Stage2Setup
  \/ Stage2Iter
  \/ Stage2Done
  \/ Finalize

Spec == Init /\ [][Next]_vars

(* ------------------- the loss configurations of a run ------------------ *)

\* runs of the same pipeline over every loss configuration, with the
\* generation long enough for the run to reach stage 2
InitLoss ==
  \E l \in LossCfgs, n \in 1..MaxIter :
    Construct(RunCfg([imit_num_iter |-> 1, synt_num_iter |-> n,
                      save_step |-> 1, framefreq |-> 1, mv |-> FALSE,
                      num_inference_steps |-> Offset + 1], l))

SpecLoss == InitLoss /\ [][Next]_vars

(* ------------------------ _next_step on its own ------------------------ *)

\* one call of _next_step, for every num_inference_steps and every timestep
\* of the table
InitNextStep ==
  \E n \in 1..NumTrainTimesteps, t \in 0..MaxTimestep :
    /\ cfg = RunCfg([imit_num_iter |-> 0, synt_num_iter |-> 0,
                     save_step |-> 1, framefreq |-> 1, mv |-> FALSE,
                     num_inference_steps |-> n], BaseLossCfg)
    /\ pc = "next_step"
    /\ timestep = t
    /\ step = InitialStep
    /\ frame_idx = -1
    /\ log = << >>
    /\ params = [ver |-> 0, nan |-> FALSE]
    /\ ref = NoRef
    /\ metrics = NoMetrics
    /\ loss = NoLoss
    /\ iters = [s1 |-> 0, s2 |-> 0]
    /\ error = NoError
    /\ all_latent = <<EncodeImage>>
    /\ latent = EncodeImage
    /\ inv_i = 0
    /\ lookups = NoLookups
    /\ zts = << >>
    /\ latents = << >>
    /\ den_i = 0
    /\ target = NoLatent

\* latent = _next_step(model, noise_pred, t, latent)
NextStepCall ==
  /\ pc = "next_step"
  /\ lookups' = NextStepLookups(timestep, cfg.num_inference_steps)
  /\ latent' = NextStep(latent)
  /\ pc' = "next_step_done"
  /\ UNCHANGED <<cfg, step, frame_idx, log, optimVars, error, all_latent,
                 inv_i, timestep, zts, latents, den_i, target>>

SpecNextStep == InitNextStep /\ [][NextStepCall]_vars

\* runs over every pair of iteration budgets and every snapshot cadence,
\* with and without video frames, with the generation long enough for the
\* run to reach stage 2
InitLoops ==
  \E b \in [imit_num_iter : 0..MaxIter, synt_num_iter : 0..MaxIter,
            save_step : 1..MaxFreq, framefreq : {1}, mv : BOOLEAN,
            num_inference_steps : {Offset + 1}] :
    Construct(RunCfg(b, BaseLossCfg))

\* the single thread of a run keeps running until it returns or raises
FairSpec == InitLoops /\ [][Next]_vars /\ WF_vars(Next)

\* runs over every base name the style file can have, every pair of
\* iteration budgets and every snapshot cadence, with and without video
\* frames
InitPaths ==
  \E b \in [imit_num_iter : 0..MaxIter, synt_num_iter : 0..MaxIter,
            save_step : 1..MaxFreq, framefreq : {1}, mv : BOOLEAN,
            num_inference_steps : {Offset + 1}],
     name \in StyleNames :
    Construct(WithStyle(RunCfg(b, BaseLossCfg), name))

SpecPaths == InitPaths /\ [][Next]_vars

\* runs with and without video frames over every frame cadence and every
\* stage-2 budget up to MaxSyntIter, after a stage 1 of at most one iteration
InitFrames ==
  \E b \in [imit_num_iter : 0..1, synt_num_iter : 0..MaxSyntIter,
            save_step : 1..MaxFreq, framefreq : 1..MaxFreq, mv : BOOLEAN,
            num_inference_steps : {Offset + 1}] :
    /\ b.mv \/ b.framefreq = 1
    /\ Construct(RunCfg(b, BaseLossCfg))

SpecFrames == InitFrames /\ [][Next]_vars

(* ============================== claims ================================ *)

EventCount(e) == Cardinality({i \in DOMAIN log : log[i] = e})

Written(dir, name) == EventCount(Write(dir, name, 0)) = 1

\* the stage of painterly_rendering an event belongs to
StageRank(e) ==
  CASE e.dir = "style_image" -> 1
    [] e.dir \in {"imit_png_logs", "imit_svg_logs"} -> 2
    [] e.name \in {"style_result.svg", "style_result.png"} -> 3
    [] e = Call("ddim_inversion") -> 4
    [] e.name = "decode_zT.png" -> 5
    [] e = Call("generate") -> 6
    [] e.name \in {"samples.png", "target.png"} -> 7
    [] e.dir \in {"frame_logs", "png_logs", "svg_logs"} -> 8
    [] e.name \in {"final_svg.svg", "final_render.png"} -> 9
    [] e.name = "rendering.mp4" -> 10
    [] e = Call("close") -> 11
    [] OTHER -> 0

\* the events a run has exactly once when it completes
SingularEvents ==
  {Copy("style_image", cfg.style_name),
   Write("style_image", "style_image_input.png", 0),
   Write("style_image", "stroke_init_style.png", 0),
   Write("style_image", "stroke_init_style.svg", 0),
   Write("", "style_result.svg", 0), Write("", "style_result.png", 0),
   Call("ddim_inversion"), Write("sd_sample", "decode_zT.png", 0),
   Call("generate"), Write("sd_sample", "samples.png", 0),
   Write("sd_sample", "target.png", 0),
   Write("", "final_svg.svg", 0), Write("", "final_render.png", 0),
   Call("close")}

\* stage 2 has been set up: the reference strokes are captured
Stage2Started == ref.ver >= 0

\* C1: the stages of a run occur in the order Init, Stage1Loop, Stage1Done,
\* InversionAndSynthesis, Stage2Loop, Finalize, each one-off step at most
\* once and exactly once in a run that completes; stage 2 is set up and
\* iterates only after the one inversion call and then the one generation
\* call have produced the target, and close is called only after the final
\* svg and the final render are written.
C1_StagesInOrder ==
  /\ \A i \in DOMAIN log : StageRank(log[i]) > 0
  /\ \A i \in 1..(Len(log) - 1) : StageRank(log[i]) <= StageRank(log[i + 1])
  /\ \A e \in SingularEvents : EventCount(e) <= 1
  /\ iters.s1 > 0 => Written("style_image", "stroke_init_style.svg")
  /\ EventCount(Call("ddim_inversion")) = 1 =>
       /\ Written("", "style_result.svg")
       /\ Written("", "style_result.png")
  /\ iters.s2 > 0 => Stage2Started
  /\ Stage2Started =>
       /\ target.src = "unet"
       /\ EventCount(Call("ddim_inversion")) = 1
       /\ EventCount(Call("generate")) = 1
       /\ Written("sd_sample", "target.png")
  /\ ~Stage2Started => iters.s2 = 0 /\ params.ver <= iters.s1 + 1
  /\ Written("", "style_result.svg") => ~(ENABLED Stage1Iter)
  /\ EventCount(Call("close")) = 1 =>
       /\ pc = "done"
       /\ ~(ENABLED Stage2Iter)
       /\ Written("", "final_svg.svg")
       /\ Written("", "final_render.png")
  /\ pc = "done" =>
       /\ \A e \in SingularEvents : EventCount(e) = 1
       /\ log[Len(log)] = Call("close")

\* a run that completed with iterations in both stages and a video
C1_Witness ==
  pc = "done" /\ iters.s1 >= 1 /\ iters.s2 >= 1 /\ cfg.mv
    /\ Written("", "rendering.mp4")

\* the loop of stage 1 has been left
Stage1Over ==
  \/ pc \notin {"init", "s1_loop", "aborted"}
  \/ pc = "aborted" /\ error.at \notin {"LoadStyle", "Stage1Iter"}

\* the loop of stage 2 has been left
Stage2Over ==
  \/ pc \in {"finalize", "done"}
  \/ pc = "aborted" /\ error.at \in {"Stage2Done", "Finalize"}

C2_Counts ==
  /\ pc = "s1_loop" => step = iters.s1 /\ step <= cfg.imit_num_iter
  /\ pc = "s2_loop" => step = iters.s2 /\ step <= cfg.synt_num_iter
  /\ Stage1Over => iters.s1 = cfg.imit_num_iter
  /\ Stage2Over => iters.s2 = cfg.synt_num_iter /\ step = cfg.synt_num_iter
  /\ pc = "s1_loop" => ((ENABLED Stage1Iter) <=> step < cfg.imit_num_iter)
  /\ pc = "s1_loop" => ((ENABLED Stage1Done) <=> step = cfg.imit_num_iter)
  /\ pc = "s2_loop" => ((ENABLED Stage2Iter) <=> step < cfg.synt_num_iter)
  /\ pc = "s2_loop" => ((ENABLED Stage2Done) <=> step = cfg.synt_num_iter)

C2_StepByOne ==
  /\ iters' # iters =>
       /\ step' = step + 1
       /\ iters'.s1 + iters'.s2 = iters.s1 + iters.s2 + 1
  /\ step' # step => (step' = step + 1 /\ iters' # iters) \/ pc = "s2_setup"

\* C2: each loop ends, and ends exactly when the step counter reaches the
\* budget of its stage: the counter goes up by one per iteration, a loop
\* that is left has run exactly its budget of iterations (none for a budget
\* of 0), and in a loop state another iteration is possible if and only if
\* the counter is below the budget, whatever the loss (NaN included) was.
C2_LoopsRunTheirBudget ==
  /\ []C2_Counts
  /\ [][C2_StepByOne]_vars
  /\ (pc = "s1_loop") ~> (pc # "s1_loop")
  /\ (pc = "s2_loop") ~> (pc # "s2_loop")

\* the loop of stage 2 is about to be left after its two iterations, the
\* last one with a NaN loss; stage 1 had a budget of 0 and ran no iteration
C2_Witness ==
  /\ pc = "s2_loop" /\ ~(ENABLED Stage2Iter)
  /\ cfg.imit_num_iter = 0 /\ iters.s1 = 0
  /\ cfg.synt_num_iter = 2 /\ iters.s2 = 2
  /\ loss.total.nan

\* between the end of stage 1 and the loop of stage 2
InInversionAndSynthesis ==
  pc \in {"style_inversion", "ddim_loop", "make_callback", "generate_call",
          "denoise", "callback", "s2_setup"}

\* C3 as stated: the counter is reset in Stage1Done, so it is 0 during
\* inversion and synthesis.
C3_ResetInStage1Done == InInversionAndSynthesis => step = 0

\* C3, amended: the counter is reset after inversion and synthesis, right
\* before the loop of stage 2. During inversion and synthesis it still holds
\* the stage-1 budget; at the first iteration of stage 2 it is 0; in the
\* loop of stage 2 it counts the iterations of stage 2.
C3_ResetBeforeStage2Loop ==
  /\ InInversionAndSynthesis => step = cfg.imit_num_iter
  /\ (pc = "s2_loop" /\ iters.s2 = 0) => step = 0
  /\ pc = "s2_loop" => step = iters.s2

\* the first iteration of stage 2 is about to run after a stage 1 of two
\* iterations
C3_Witness ==
  /\ pc = "s2_loop" /\ iters.s2 = 0 /\ cfg.synt_num_iter >= 1
  /\ iters.s1 = 2 /\ step = 0

\* ddim_inversion has returned the trajectory
TrajectoryReturned == zts # << >>

\* C4 as stated: index k holds the latent after k inversion steps, index 0
\* the latent of the clean image.
C4_CleanFirst ==
  TrajectoryReturned =>
    /\ Len(zts) = cfg.num_inference_steps + 1
    /\ At(zts, 0) = EncodeImage
    /\ \A k \in 0..cfg.num_inference_steps : At(zts, k).n = k

\* C4, amended: the trajectory has num_steps + 1 entries ordered from most
\* to least noisy: index 0 holds the latent of the last inversion step,
\* index k the latent after num_steps - k inversion steps, and index
\* num_steps the latent of the clean image.
C4_NoisiestFirst ==
  TrajectoryReturned =>
    /\ Len(zts) = cfg.num_inference_steps + 1
    /\ At(zts, cfg.num_inference_steps) = EncodeImage
    /\ At(zts, 0) = latent
    /\ \A k \in 0..cfg.num_inference_steps :
         At(zts, k).n = cfg.num_inference_steps - k /\ At(zts, k).src = "inv"

\* a trajectory of several steps has been returned
C4_Witness ==
  /\ TrajectoryReturned /\ cfg.num_inference_steps >= 3
  /\ At(zts, 0).n = cfg.num_inference_steps

C5_Callback ==
  pc = "callback" =>
    /\ zts' = zts
    /\ IF pc' = "denoise"
         THEN /\ Len(latents') = NumPrompts
              /\ latents'[1] = At(zts, CallbackIndex(den_i))
              /\ \E k \in 0..(Len(zts) - 1) : latents'[1] = At(zts, k)
              /\ \A s \in 2..NumPrompts :
                   latents'[s] = latents[s] /\ latents[s] = Denoised(den_i)[s]
         ELSE latents' = latents

\* C5: a call of the step-end callback that returns has put an entry of the
\* trajectory into slot 0 of the latents and left every other slot as the
\* denoising step produced it (a call that raises leaves the latents as
\* they were); no step of the run changes the trajectory once returned.
C5_CallbackWritesSlot0Only ==
  /\ [][C5_Callback]_vars
  /\ [][TrajectoryReturned => zts' = zts]_vars

\* the callback has returned at a step past the offset: slot 0 holds the
\* trajectory entry of that step, slots 1 and 2 what the step produced
C5_Witness ==
  /\ pc = "denoise" /\ den_i = Offset + 2
  /\ latents[1] = At(zts, den_i)
  /\ latents[2] = Denoised(den_i - 1)[2]
  /\ latents[3] = Denoised(den_i - 1)[3]

\* C6: in every call of _next_step with num_inference_steps in 1..1000 and
\* a timestep in 0..999, alphas_cumprod is read only at indices in [0, 999];
\* when timestep - num_train_timesteps // num_inference_steps is negative
\* the table is not read there and final_alpha_cumprod is used instead.
C6_LookupsInTable ==
  pc = "next_step_done" =>
    LET st == timestep - NumTrainTimesteps \div cfg.num_inference_steps
    IN /\ timestep \in lookups.idx
       /\ \A i \in lookups.idx : 0 <= i /\ i <= 999
       /\ st < 0 => lookups.boundary /\ lookups.idx = {timestep}
       /\ st >= 0 => ~lookups.boundary /\ lookups.idx = {st, timestep}

\* the last step of the finest schedule: the stepped timestep is -1 and the
\* boundary value is used
C6_Witness ==
  /\ pc = "next_step_done"
  /\ cfg.num_inference_steps = 1000 /\ timestep = 0
  /\ lookups.boundary /\ lookups.idx = {0}

\* the loss of an iteration of stage 2 has been computed and is in scope
Stage2LossComputed ==
  /\ Stage2Started
  /\ params.ver > ref.ver
  /\ pc = "s2_loop" \/ (pc = "aborted" /\ error.at = "Stage2Iter")

\* C7: in every iteration of stage 2 a term whose weight is 0 is exactly 0
\* in the breakdown, and the total is the sum of the other two terms,
\* whatever the metrics (NaN included) and the selections are.
C7_ZeroWeightTermIsZero ==
  Stage2LossComputed =>
    /\ cfg.l2_loss = 0 =>
         /\ loss.l_recon = Zero
         /\ loss.total = FAdd(loss.l_struct, loss.l_rel_pos)
    /\ cfg.struct_loss_weight = 0 =>
         /\ loss.l_struct = Zero
         /\ loss.total = FAdd(loss.l_recon, loss.l_rel_pos)
    /\ cfg.pos_loss_weight = 0 =>
         /\ loss.l_rel_pos = Zero
         /\ loss.total = FAdd(loss.l_recon, loss.l_struct)

\* every weight is 0 and no metric is: a NaN mse, a similarity below 1, a
\* positive distance; the total is exactly 0
C7_Witness ==
  /\ Stage2LossComputed
  /\ cfg.l2_loss = 0 /\ metrics.mse.nan
  /\ cfg.struct_loss_weight = 0 /\ metrics.sim = F(0)
  /\ cfg.pos_loss_weight = 0 /\ metrics.dist = F(2)
  /\ loss.total = Zero

\* C8: the total is the sum of the three terms, each the metric scaled by
\* its weight: mse * l2_loss, (1 - similarity) * struct_loss_weight, and the
\* distance * pos_loss_weight.
C8_EveryTermScaledByItsWeight ==
  Stage2LossComputed =>
    /\ loss.total = FAdd(FAdd(loss.l_recon, loss.l_struct), loss.l_rel_pos)
    /\ cfg.l2_loss > 0 => loss.l_recon = FScale(metrics.mse, cfg.l2_loss)
    /\ (cfg.struct_loss_weight > 0 /\ cfg.struct_loss \in {"ssim", "msssim"}) =>
         loss.l_struct =
           FScale(FSub(F(1), metrics.sim), cfg.struct_loss_weight)
    /\ (cfg.pos_loss_weight > 0 /\ cfg.pos_type = "sinkhorn") =>
         loss.l_rel_pos = FScale(metrics.dist, cfg.pos_loss_weight)

\* a negative structural weight, or a position-loss type that is none of the
\* supported ones
InvalidLossCfg ==
  \/ cfg.struct_loss_weight < 0
  \/ cfg.pos_type \notin {"pos", "bez", "sinkhorn"}

\* C9: a run with an invalid loss configuration is rejected before any
\* iteration: no optimizer step is ever taken and the run never completes.
C9_InvalidConfigRejected ==
  InvalidLossCfg =>
    /\ params.ver = 0
    /\ iters.s1 = 0 /\ iters.s2 = 0
    /\ pc # "done"

\* C10: a failing periodic write (snapshot or frame) inside a loop never
\* ends the run.
C10_WriteFailureSkipped ==
  ~(/\ pc = "aborted"
    /\ error.type = "IOError"
    /\ error.at \in {"Stage1Iter", "Stage2Iter"})

\* an iteration of stage 1 or of stage 2 has computed a NaN loss
NaNLossComputed == loss.total.nan

\* C11: a NaN loss is fatal in the iteration that computed it: no optimizer
\* step is ever applied with a NaN loss (the stroke parameters never take a
\* NaN update), the run is aborted in that state, and a run whose loss was
\* NaN never reaches the completion signal.
C11_NaNLossAborts ==
  /\ ~params.nan
  /\ NaNLossComputed => pc = "aborted"
  /\ pc = "done" => ~params.nan

\* the path of a file a write or a copy produced
Path(e) == <<e.dir, e.name, e.n>>

\* the positions of the log at which a file was written
FileEvents == {i \in DOMAIN log : log[i].op \in {"write", "copy"}}

\* C12: the output tree is append-only within a run: no two writes of the
\* run (copy of the style file, initial, periodic, frame and final
\* artifacts) go to the same path.
C12_NoPathWrittenTwice ==
  \A i, j \in FileEvents : i < j => Path(log[i]) # Path(log[j])

\* the optimizer steps stage 2 has applied since the reference was captured
Stage2Updates == params.ver - ref.ver

C13_CapturedOnce ==
  /\ ref' # ref =>
       /\ pc = "s2_setup" /\ ref = NoRef
       /\ ref'.ver = params.ver /\ ref'.nan = params.nan
       /\ params' = params
       /\ iters.s1 = cfg.imit_num_iter /\ iters.s2 = 0
  /\ (Stage2Started /\ params' # params) => ref' = ref /\ ref'.ver # params'.ver

C13_EqualsStage1Final ==
  /\ ~Stage2Started => ref = NoRef
  /\ Stage2Started =>
       /\ ref.ver = cfg.imit_num_iter /\ ref.ver = iters.s1
       /\ Stage2Updates >= iters.s2 /\ Stage2Updates <= iters.s2 + 1
       /\ pc = "s2_loop" => Stage2Updates = iters.s2
  /\ (Stage2LossComputed /\ Stage2Updates = 1 /\ ~ref.nan
        /\ cfg.pos_loss_weight > 0 /\ cfg.pos_type \in {"pos", "bez"}) =>
       loss.l_rel_pos = Zero
  /\ (Stage2LossComputed /\ Stage2Updates > 1 /\ ~params.nan
        /\ cfg.pos_loss_weight > 0 /\ cfg.pos_type \in {"pos", "bez"}) =>
       loss.l_rel_pos = FScale(metrics.dist, cfg.pos_loss_weight)

\* C13: the reference stroke configuration of the stage-2 positional loss
\* is captured exactly once, after the last update of stage 1 and before the
\* first update of stage 2, as the strokes stage 1 ended with; no optimizer
\* step of stage 2 changes it while it changes the live strokes, so in every
\* iteration of stage 2 the loss measures the live strokes against the
\* stage-1 final configuration (distance zero in the first iteration).
C13_ReferenceIsStage1Final ==
  /\ []C13_EqualsStage1Final
  /\ [][C13_CapturedOnce]_vars

\* two stage-2 updates after a stage 1 of one update: the live strokes have
\* moved on, the reference is still the stage-1 result, and the positional
\* term of the last iteration is the weighted distance between the two
C13_Witness ==
  /\ pc = "s2_loop" /\ iters.s1 = 1 /\ iters.s2 = 2
  /\ ref.ver = 1 /\ params.ver = 3
  /\ loss.l_rel_pos = F(2)

\* C14: for every num_inference_steps >= 1 and the offset 5, every index at
\* which the trajectory is read is in bounds: the initial index offset in
\* make_inversion_callback and max(offset + 1, i + 1) at every denoising
\* step i, so no IndexError ends a run; the injected index never decreases
\* and at the final step it is num_inference_steps.
C14_TrajectoryIndicesInBounds ==
  /\ error.type # "IndexError"
  /\ pc = "make_callback" =>
       InBounds(zts, Offset) /\ Offset <= cfg.num_inference_steps
  /\ pc = "callback" =>
       /\ InBounds(zts, CallbackIndex(den_i))
       /\ CallbackIndex(den_i) <= cfg.num_inference_steps
       /\ \A j \in 0..(den_i - 1) : CallbackIndex(j) <= CallbackIndex(j + 1)
       /\ den_i = cfg.num_inference_steps - 1 =>
            CallbackIndex(den_i) = cfg.num_inference_steps

IsFrame(e) == e.op = "write" /\ e.dir = "frame_logs"

\* the frames written so far, in order
Frames == SelectSeq(log, IsFrame)

\* how many of the steps 0..s-1 of a stage-2 loop of total iterations are
\* frame steps: multiples of framefreq, and the last step
FrameSteps(s, total) ==
  Cardinality({j \in 0..(s - 1) : j % cfg.framefreq = 0 \/ j = total - 1})

VideoAssembled == EventCount(Write("", "rendering.mp4", 0)) = 1

\* C15: with video output enabled the frames are numbered 0, 1, ..., K-1 in
\* the order written, frame_idx is the number of frames written, stage 1
\* writes none, and stage 2 writes one frame at each step that is a
\* multiple of framefreq or the last step (once when it is both) and none
\* at any other step; with video output disabled no frame is written and
\* no video is assembled.
C15_FramesContiguous ==
  /\ \A k \in 1..Len(Frames) : Frames[k] = Write("frame_logs", "iter", k - 1)
  /\ ~Stage2Started => Len(Frames) = 0
  /\ cfg.mv =>
       /\ frame_idx = Len(Frames)
       /\ pc = "s2_loop" => Len(Frames) = FrameSteps(step, cfg.synt_num_iter)
       /\ Stage2Over =>
            Len(Frames) = FrameSteps(cfg.synt_num_iter, cfg.synt_num_iter)
       /\ pc = "done" => VideoAssembled
       /\ VideoAssembled => Stage2Over
  /\ ~cfg.mv =>
       /\ Len(Frames) = 0
       /\ frame_idx = -1
       /\ ~VideoAssembled

\* a run of three stage-2 iterations with a frame every second step has
\* completed: frames 0 and 1 were written at steps 0 and 2 (the last step,
\* also a multiple of 2), none at step 1
C15_Witness ==
  /\ pc = "done" /\ cfg.mv /\ cfg.framefreq = 2 /\ cfg.synt_num_iter = 3
  /\ Len(Frames) = 2 /\ frame_idx = 2
  /\ VideoAssembled

====
